---- MODULE Spec2Model ----
(***************************************************************************)
(* RadBoundaryVariable::RadBoundaryVariable (src/bvals/cc/rad/bvals_rad.cpp) *)
(* as a state machine: the constructor builds the angular grid, the unit    *)
(* direction table and then one remap table per reflecting face and polar   *)
(* cap.  Reals are fixed point: angles in milliradians, direction and       *)
(* tetrad components in thousandths.  NaN is a value of its own.            *)
(***************************************************************************)
EXTENDS Integers, Sequences, FiniteSets, TLC

\* ------------------------------------------------------------------ bounds
MaxZeta == 3
MaxPsi == 2
MaxGhostRad == 2
MaxNonPeriodic == 1
MaxRaceBins == 3

\* ------------------------------------------------------- fixed-point reals
PI == 3142
ONE == 1000
NaN == 2^30
PosInf == 2^30 + 1
NegInf == 2^30 + 2

IsFinite(x) == x < NaN
Abs(x) == IF x < 0 THEN -x ELSE x

\* a / b on integers, rounding toward minus infinity, b # 0
IDiv(a, b) == IF b < 0 THEN (-a) \div (-b) ELSE a \div b

\* IEEE division: x/0 is +-Inf, 0/0 is NaN, NaN propagates; the quotient
\* carries the scale `scale`
RealDiv(a, b, scale) ==
  IF ~IsFinite(a) \/ ~IsFinite(b) THEN NaN
  ELSE IF b = 0 THEN (IF a = 0 THEN NaN ELSE IF a > 0 THEN PosInf ELSE NegInf)
  ELSE IDiv(a * scale, b)

RECURSIVE CosSeries(_, _, _, _)
CosSeries(y, k, term, acc) ==
  IF k > 6 THEN acc
  ELSE LET t == (((term * y) \div ONE) * y) \div (ONE * (2*k - 1) * (2*k))
       IN CosSeries(y, k + 1, t, IF k % 2 = 1 THEN acc - t ELSE acc + t)

\* cos on [0, PI/2], argument in milliradians, value in thousandths
CosTab == [y \in 0..(PI \div 2) |-> (CosSeries(y, 1, 100 * ONE, 100 * ONE) + 50) \div 100]

Cos(x) ==
  LET r == x % (2 * PI)
      h == PI \div 2
  IN IF r <= h THEN CosTab[r]
     ELSE IF r <= PI THEN -CosTab[PI - r]
     ELSE IF r <= PI + h THEN -CosTab[r - PI]
     ELSE CosTab[2 * PI - r]

Sin(x) == Cos(x - PI \div 2)

RECURSIVE AcosSearch(_, _, _)
AcosSearch(c, lo, hi) ==
  IF hi - lo <= 1 THEN (IF Abs(Cos(lo) - c) <= Abs(Cos(hi) - c) THEN lo ELSE hi)
  ELSE LET mid == (lo + hi) \div 2
       IN IF Cos(mid) >= c THEN AcosSearch(c, mid, hi) ELSE AcosSearch(c, lo, mid)

AcosTab == [c \in (-ONE)..ONE |->
              IF c = ONE THEN 0 ELSE IF c = -ONE THEN PI ELSE AcosSearch(c, 0, PI)]

\* std::acos: NaN outside [-1, 1] (and so for +-Inf and NaN)
Acos(c) == IF IsFinite(c) /\ c >= -ONE /\ c <= ONE THEN AcosTab[c] ELSE NaN

RECURSIVE ISqrtSearch(_, _, _)
ISqrtSearch(n, lo, hi) ==
  IF hi - lo <= 1 THEN (IF hi * hi <= n THEN hi ELSE lo)
  ELSE LET mid == (lo + hi) \div 2
       IN IF mid * mid <= n THEN ISqrtSearch(n, mid, hi) ELSE ISqrtSearch(n, lo, mid)

ISqrt(n) == ISqrtSearch(n, 0, 4 * ONE)

\* the angle in [0, PI] whose cosine is x / r, r the length of (x, y)
AngleOfCosine(x, r) ==
  IF r = 0 THEN (IF x >= 0 THEN 0 ELSE PI)
  ELSE IF IDiv(x * ONE, r) > ONE THEN 0
  ELSE IF IDiv(x * ONE, r) < -ONE THEN PI
  ELSE Acos(IDiv(x * ONE, r))

\* std::atan2(y, x) in (-PI, PI]; atan2(0, 0) = 0
Atan2(y, x) ==
  IF ~IsFinite(y) \/ ~IsFinite(x) THEN NaN
  ELSE IF x = 0 /\ y = 0 THEN 0
  ELSE IF y < 0 THEN -AngleOfCosine(x, ISqrt(x * x + y * y))
  ELSE AngleOfCosine(x, ISqrt(x * x + y * y))

\* the comparison taken as >=, so that a centre equal to the angle stops the scan
RealGe(a, b) == a # NaN /\ b # NaN /\ a >= b
\* a > b on reals: false when either side is NaN
RealGt(a, b) == a # NaN /\ b # NaN /\ a > b
RealLt(a, b) == a # NaN /\ b # NaN /\ a < b

RealAdd(a, b) == IF IsFinite(a) /\ IsFinite(b) THEN a + b ELSE NaN
RealSub(a, b) == IF IsFinite(a) /\ IsFinite(b) THEN a - b ELSE NaN
\* product of two thousandths-scaled reals
RealMul(a, b) == IF IsFinite(a) /\ IsFinite(b) THEN IDiv(a * b, ONE) ELSE NaN
RealNeg(a) == IF IsFinite(a) THEN -a ELSE NaN
RealCos(x) == IF IsFinite(x) THEN Cos(x) ELSE NaN
RealSin(x) == IF IsFinite(x) THEN Sin(x) ELSE NaN

\* ------------------------------------------------------------------- state
VARIABLES
  nzeta, npsi,        \* interior angular resolution (num_zeta, num_psi)
  NGHOST_RAD,         \* angular ghost width of the build
  block_bcs,          \* pbval_->block_bcs: boundary kind of each face
  geometry,           \* which tetrad field pmb->pcoord provides
  pc,                 \* the constructor's position
  l, m,               \* loop counters of the polar / azimuthal loops
  zetaf, zetav, dzetaf, psif, psiv, dpsif,
  zetaf_writes, psif_writes,   \* assignments made to each face so far
  nh_g,               \* unit normal components in the orthonormal frame
  e_g, e_a, e_cov_a,  \* tetrad temporaries shared by all faces
  allocated,          \* arrays on which NewAthenaArray has been called
  tables,             \* entries written by the latest step, under their table's name
  wild_writes,        \* arrays written outside allocated storage
  par                 \* two threads sharing the iterations of one face block

vars == <<nzeta, npsi, NGHOST_RAD, block_bcs, geometry, pc, l, m,
          zetaf, zetav, dzetaf, psif, psiv, dpsif, zetaf_writes, psif_writes,
          nh_g, e_g, e_a, e_cov_a, allocated, tables, wild_writes, par>>

grid_vars == <<zetaf, zetav, dzetaf, psif, psiv, dpsif, zetaf_writes, psif_writes>>
table_vars == <<nh_g, e_g, e_a, e_cov_a, allocated, tables, wild_writes>>
input_vars == <<nzeta, npsi, NGHOST_RAD, block_bcs, geometry>>

\* ------------------------------------------------------------ index bounds
zs == NGHOST_RAD
ze == nzeta + NGHOST_RAD - 1
ps == NGHOST_RAD
pe == npsi + NGHOST_RAD - 1
\* the bin count with one azimuthal ghost layer left out
nangOneLayer == (nzeta + 2*NGHOST_RAD) * (npsi + NGHOST_RAD)
nang == (nzeta + 2*NGHOST_RAD) * (npsi + 2*NGHOST_RAD)

\* spatial ghost depth and a block of the smallest legal size
NGHOST == 2
is == NGHOST
ie == is + NGHOST - 1
js == NGHOST
je == js + NGHOST - 1
ks == NGHOST
ke == ks + NGHOST - 1

AngleInd(ll, mm) == ll * (npsi + 2*NGHOST_RAD) + mm

\* f with key k set to v, k added to its domain when new
Put(f, k, v) == [x \in DOMAIN f \cup {k} |-> IF x = k THEN v ELSE f[x]]

\* AthenaArray::NewAthenaArray(n): n elements, zero filled
NewAthenaArray(n) == [i \in 0..(n - 1) |-> 0]

Faces == {"inner_x1", "outer_x1", "inner_x2", "outer_x2", "inner_x3", "outer_x3"}
Flags == {"reflect", "polar", "periodic"}

\* the block whose x2 faces are the two polar caps of a sphere
BothCaps ==
  [f \in Faces |-> IF f \in {"inner_x2", "outer_x2"} THEN "polar" ELSE "periodic"]

\* the polar flag belongs to the x2 faces only
BoundaryConfigs ==
  {b \in [Faces -> Flags] :
     /\ \A f \in Faces \ {"inner_x2", "outer_x2"} : b[f] # "polar"
     /\ \/ Cardinality({f \in Faces : b[f] # "periodic"}) <= MaxNonPeriodic
        \/ b = BothCaps}

Geometries == {"flat", "rotating", "degenerate"}

\* the block's iterations run on the constructing thread alone
NoThreads ==
  [face |-> "none", split |-> "none", step |-> <<"idle", "idle">>,
   bin |-> <<0, 0>>, out |-> <<>>]

Zero44 == <<<<0, 0, 0, 0>>, <<0, 0, 0, 0>>, <<0, 0, 0, 0>>, <<0, 0, 0, 0>>>>

Init ==
  /\ nzeta \in 1..MaxZeta
  /\ npsi \in 1..MaxPsi
  /\ NGHOST_RAD \in 1..MaxGhostRad
  /\ block_bcs \in BoundaryConfigs
  /\ geometry \in Geometries
  /\ pc = "polar_poles"
  /\ l = 0
  /\ m = 0
  /\ zetaf = NewAthenaArray(nzeta + 2*NGHOST_RAD + 1)
  /\ zetav = NewAthenaArray(nzeta + 2*NGHOST_RAD)
  /\ dzetaf = NewAthenaArray(nzeta + 2*NGHOST_RAD)
  /\ psif = NewAthenaArray(npsi + 2*NGHOST_RAD + 1)
  /\ psiv = NewAthenaArray(npsi + 2*NGHOST_RAD)
  /\ dpsif = NewAthenaArray(npsi + 2*NGHOST_RAD)
  /\ zetaf_writes = NewAthenaArray(nzeta + 2*NGHOST_RAD + 1)
  /\ psif_writes = NewAthenaArray(npsi + 2*NGHOST_RAD + 1)
  /\ nh_g = <<>>
  /\ e_g = Zero44
  /\ e_a = Zero44
  /\ e_cov_a = Zero44
  /\ allocated = <<>>
  /\ tables = <<>>
  /\ wild_writes = {}
  /\ par = NoThreads

\* --------------------------------------------------------- polar angles
\* zetaf(i) = v, counted
SetZetaf(arr, i, v) == [arr EXCEPT ![i] = v]
Count(cnt, i) == [cnt EXCEPT ![i] = @ + 1]

\* the loop run up to nzeta/2, onto the equator face of an even grid
LastNorthernFaceHalf == nzeta \div 2 + NGHOST_RAD
\* last index of the northern active-face loop
LastNorthernFace == (nzeta - 1) \div 2 + NGHOST_RAD
\* the southern face paired with northern face / ghost face ll
SouthernFace(ll) == ze + NGHOST_RAD + 1 - ll
\* the face a northern ghost face is mirrored from
NorthernMirror(ll) == 2*NGHOST_RAD - ll
\* the face a southern ghost face is mirrored from
SouthernMirror(ll) == nzeta + ll
EquatorFace == nzeta \div 2 + NGHOST_RAD

\* lines 69-71
PolarPoles ==
  /\ pc = "polar_poles"
  /\ zetaf' = SetZetaf(SetZetaf(zetaf, zs, 0), ze + 1, PI)
  /\ zetaf_writes' = Count(Count(zetaf_writes, zs), ze + 1)
  /\ l' = zs + 1
  /\ pc' = "polar_active"
  /\ UNCHANGED <<input_vars, par, m, zetav, dzetaf, psif, psiv, dpsif, psif_writes, table_vars>>

\* lines 72-77, one iteration
PolarActive ==
  /\ pc = "polar_active"
  /\ IF l <= LastNorthernFace
     THEN LET czeta == ONE - IDiv(2 * ONE * (l - NGHOST_RAD), nzeta)
              zeta == Acos(czeta)
          IN /\ zetaf' = SetZetaf(SetZetaf(zetaf, l, zeta), SouthernFace(l), PI - zeta)
             /\ zetaf_writes' = Count(Count(zetaf_writes, l), SouthernFace(l))
             /\ l' = l + 1
             /\ pc' = pc
     ELSE /\ pc' = "polar_equator"
          /\ UNCHANGED <<zetaf, zetaf_writes, l>>
  /\ UNCHANGED <<input_vars, par, m, zetav, dzetaf, psif, psiv, dpsif, psif_writes, table_vars>>

\* lines 78-80
PolarEquator ==
  /\ pc = "polar_equator"
  /\ IF nzeta % 2 = 0
     THEN /\ zetaf' = SetZetaf(zetaf, EquatorFace, PI \div 2)
          /\ zetaf_writes' = Count(zetaf_writes, EquatorFace)
     ELSE UNCHANGED <<zetaf, zetaf_writes>>
  /\ l' = zs - NGHOST_RAD
  /\ pc' = "polar_ghost"
  /\ UNCHANGED <<input_vars, par, m, zetav, dzetaf, psif, psiv, dpsif, psif_writes, table_vars>>

\* lines 81-84, one iteration: the second assignment reads the array the
\* first has written
PolarGhost ==
  /\ pc = "polar_ghost"
  /\ IF l <= zs - 1
     THEN LET a1 == SetZetaf(zetaf, l, -zetaf[NorthernMirror(l)])
              a2 == SetZetaf(a1, SouthernFace(l), 2 * PI - a1[SouthernMirror(l)])
          IN /\ zetaf' = a2
             /\ zetaf_writes' = Count(Count(zetaf_writes, l), SouthernFace(l))
             /\ l' = l + 1
             /\ pc' = pc
     ELSE /\ pc' = "polar_centers"
          /\ UNCHANGED <<zetaf, zetaf_writes, l>>
  /\ UNCHANGED <<input_vars, par, m, zetav, dzetaf, psif, psiv, dpsif, psif_writes, table_vars>>

\* lines 86-88: the flux-weighted centre of the cell [zf1, zf2]
ZetaCenter(zf1, zf2) ==
  RealDiv(zf2 * Cos(zf2) - ONE * Sin(zf2) - zf1 * Cos(zf1) + ONE * Sin(zf1),
          Cos(zf2) - Cos(zf1), 1)

\* lines 85-90, the whole loop
PolarCenters ==
  /\ pc = "polar_centers"
  /\ zetav' = [ll \in DOMAIN zetav |-> ZetaCenter(zetaf[ll], zetaf[ll + 1])]
  /\ dzetaf' = [ll \in DOMAIN dzetaf |-> zetaf[ll + 1] - zetaf[ll]]
  /\ l' = ze + NGHOST_RAD + 1
  /\ pc' = "azimuth_origin"
  /\ UNCHANGED <<input_vars, par, m, zetaf, zetaf_writes, psif, psiv, dpsif, psif_writes, table_vars>>

\* ------------------------------------------------------ azimuthal angles
\* the face a beginning ghost face is shifted from
BeginShift(mm) == npsi + mm
\* the end ghost face paired with beginning ghost face mm
EndGhost(mm) == pe + NGHOST_RAD + 1 - mm
\* the face an end ghost face is shifted from
EndShift(mm) == 2*NGHOST_RAD - mm

\* lines 93-95
AzimuthOrigin ==
  /\ pc = "azimuth_origin"
  /\ psif' = [psif EXCEPT ![ps] = 0, ![pe + 1] = 2 * PI]
  /\ psif_writes' = Count(Count(psif_writes, ps), pe + 1)
  /\ m' = ps + 1
  /\ pc' = "azimuth_active"
  /\ UNCHANGED <<input_vars, par, l, zetaf, zetav, dzetaf, zetaf_writes, psiv, dpsif, table_vars>>

\* lines 96-98, one iteration
AzimuthActive ==
  /\ pc = "azimuth_active"
  /\ IF m <= pe
     THEN /\ psif' = [psif EXCEPT ![m] = IDiv((m - NGHOST_RAD) * 2 * PI, npsi)]
          /\ psif_writes' = Count(psif_writes, m)
          /\ m' = m + 1
          /\ pc' = pc
     ELSE /\ m' = ps - NGHOST_RAD
          /\ pc' = "azimuth_ghost"
          /\ UNCHANGED <<psif, psif_writes>>
  /\ UNCHANGED <<input_vars, par, l, zetaf, zetav, dzetaf, zetaf_writes, psiv, dpsif, table_vars>>

\* lines 99-102, one iteration
AzimuthGhost ==
  /\ pc = "azimuth_ghost"
  /\ IF m <= ps - 1
     THEN LET a1 == [psif EXCEPT ![m] = psif[BeginShift(m)] - 2 * PI]
              a2 == [a1 EXCEPT ![EndGhost(m)] = a1[EndShift(m)] + 2 * PI]
          IN /\ psif' = a2
             /\ psif_writes' = Count(Count(psif_writes, m), EndGhost(m))
             /\ m' = m + 1
             /\ pc' = pc
     ELSE /\ pc' = "azimuth_centers"
          /\ UNCHANGED <<psif, psif_writes, m>>
  /\ UNCHANGED <<input_vars, par, l, zetaf, zetav, dzetaf, zetaf_writes, psiv, dpsif, table_vars>>

\* lines 103-106, the whole loop
AzimuthCenters ==
  /\ pc = "azimuth_centers"
  /\ psiv' = [mm \in DOMAIN psiv |-> (psif[mm] + psif[mm + 1]) \div 2]
  /\ dpsif' = [mm \in DOMAIN dpsif |-> psif[mm + 1] - psif[mm]]
  /\ m' = pe + NGHOST_RAD + 1
  /\ pc' = "unit_normals"
  /\ UNCHANGED <<input_vars, par, l, zetaf, zetav, dzetaf, zetaf_writes, psif, psif_writes, table_vars>>

\* ------------------------------------------------------- unit directions
\* the (l, m) pair of linear bin lm
BinL(lm) == lm \div (npsi + 2*NGHOST_RAD)
BinM(lm) == lm % (npsi + 2*NGHOST_RAD)

\* lines 119-120: the (l, m) pairs the two loops run over
PaddedBins ==
  ((zs - NGHOST_RAD)..(ze + NGHOST_RAD)) \X ((ps - NGHOST_RAD)..(pe + NGHOST_RAD))

\* lines 122-125: component p of the direction of bin (ll, mm)
UnitNormal(p, ll, mm) ==
  CASE p = 0 -> ONE
    [] p = 1 -> RealMul(RealSin(zetav[ll]), RealCos(psiv[mm]))
    [] p = 2 -> RealMul(RealSin(zetav[ll]), RealSin(psiv[mm]))
    [] OTHER -> RealCos(zetav[ll])

\* lines 127-128 address nh_g(1,l,m) and nh_g(2,l,m): three indices into the
\* array allocated as (4, nang), element m + nang*(l + 4*n) of 4*nang
RescaleOffset(n, ll, mm) == mm + nang * (ll + 4 * n)

\* lines 116-131.  When nzeta = 1 the rescaling writes land past the end of
\* nh_g: the table itself keeps the values of lines 122-125, and the build
\* either carries on with the heap overwritten or stops.
UnitNormals ==
  /\ pc = "unit_normals"
  /\ nh_g' = [p \in 0..3 |-> [lm \in 0..(nang - 1) |-> UnitNormal(p, BinL(lm), BinM(lm))]]
  /\ allocated' = Put(allocated, "nh_g", <<4, nang>>)
  /\ IF nzeta = 1 /\ \E ll \in DOMAIN zetav, mm \in DOMAIN psiv :
                        RescaleOffset(1, ll, mm) >= 4 * nang
     THEN /\ wild_writes' = wild_writes \cup {"nh_g"}
          /\ pc' \in {"reflect_ix1_", "crashed"}
     ELSE /\ wild_writes' = wild_writes
          /\ pc' = "reflect_ix1_"
  /\ UNCHANGED <<input_vars, par, l, m, grid_vars, e_g, e_a, e_cov_a, tables>>

\* ------------------------------------------------------ tetrad provider
\* A 4-vector is a tuple and a 4x4 array a tuple of its rows: component n of
\* the code is element n + 1 here.
Identity44 == <<<<ONE, 0, 0, 0>>, <<0, ONE, 0, 0>>, <<0, 0, ONE, 0>>, <<0, 0, 0, ONE>>>>
Minkowski44 == <<<<-ONE, 0, 0, 0>>, <<0, ONE, 0, 0>>, <<0, 0, ONE, 0>>, <<0, 0, 0, ONE>>>>
\* spatial legs turned about the second axis by the angle with cosine 3/5
Rotated44 == <<<<ONE, 0, 0, 0>>, <<0, 600, 0, 800>>, <<0, 0, ONE, 0>>, <<0, -800, 0, 600>>>>
RotatedCov44 == <<<<-ONE, 0, 0, 0>>, <<0, 600, 0, 800>>, <<0, 0, ONE, 0>>, <<0, -800, 0, 600>>>>
\* a frame whose time-like leg has collapsed
DegenerateCov44 == <<<<0, 0, 0, 0>>, <<0, ONE, 0, 0>>, <<0, 0, ONE, 0>>, <<0, 0, 0, ONE>>>>

\* pmb->pcoord->x1v(i), x2v(j), x3v(k): cell centres, in cell widths
x1v(i) == i
x2v(j) == j
x3v(k) == k

\* pmb->pcoord->Tetrad(x1, x2, x3, e, e_cov, omega): the frame e(p, n), its
\* dual e_cov(n, p).  "flat": Cartesian Minkowski everywhere; "rotating":
\* the frame of every other cell is turned; "degenerate": a dual frame with
\* no time-like leg.
Tetrad(x1, x2, x3) ==
  CASE geometry = "flat" -> [e |-> Identity44, e_cov |-> Minkowski44]
    [] geometry = "rotating" ->
         IF (x1 + x2 + x3) % 2 = 0
         THEN [e |-> Identity44, e_cov |-> Minkowski44]
         ELSE [e |-> Rotated44, e_cov |-> RotatedCov44]
    [] OTHER -> [e |-> Identity44, e_cov |-> DegenerateCov44]

\* ------------------------------------------------------- one remap entry
\* sum over p of a[p] * b[p], accumulated as the code's inner loops do
Dot4(a, b) ==
  IF \E p \in 1..4 : ~IsFinite(a[p]) \/ ~IsFinite(b[p]) THEN NaN
  ELSE IDiv(a[1]*b[1] + a[2]*b[2] + a[3]*b[3] + a[4]*b[4], ONE)

Column(e, n) == <<e[1][n], e[2][n], e[3][n], e[4][n]>>

\* lines 149-154: n_g[n] = sum_p e_g(p,n) * nh_g(p,lm_g)
CoordinateDirection(eg, lm_g) ==
  LET nh == <<nh_g[0][lm_g], nh_g[1][lm_g], nh_g[2][lm_g], nh_g[3][lm_g]>>
  IN <<Dot4(Column(eg, 1), nh), Dot4(Column(eg, 2), nh),
       Dot4(Column(eg, 3), nh), Dot4(Column(eg, 4), nh)>>

\* every spatial component negated, whatever the boundary
NegatedSpatial(v, n, flip) == IF n # 0 THEN RealNeg(v[n + 1]) ELSE v[n + 1]

\* n_a[n] *= -1.0 when n is in flip
Negated(v, n, flip) == IF n \in flip THEN RealNeg(v[n + 1]) ELSE v[n + 1]

\* lines 155-159 (and 546-551): copy, then negate the components in flip
GeometricAction(n_g, flip) ==
  <<Negated(n_g, 0, flip), Negated(n_g, 1, flip), Negated(n_g, 2, flip),
    Negated(n_g, 3, flip)>>

\* lines 160-166: nh_a[n] = sum_p e_cov_a(n,p) * n_a[p], then nh_a[0] *= -1
FlatDirection(ecova, n_a) ==
  <<RealNeg(Dot4(ecova[1], n_a)), Dot4(ecova[2], n_a), Dot4(ecova[3], n_a),
    Dot4(ecova[4], n_a)>>

\* line 167
PolarAngle(nh_a) == Acos(RealDiv(nh_a[4], nh_a[1], ONE))

\* lines 168-169
AzimuthAngle(nh_a) ==
  LET psi_a == Atan2(nh_a[3], nh_a[2])
  IN IF RealLt(psi_a, 0) THEN psi_a + 2 * PI ELSE psi_a

\* lines 170-181: for (i = lo; i <= hi; ++i) if (centers(i) > angle) break;
RECURSIVE BracketSearch(_, _, _, _)
BracketSearch(centers, i, hi, angle) ==
  IF i > hi THEN i
  ELSE IF RealGt(centers[i], angle) THEN i
  ELSE BracketSearch(centers, i + 1, hi, angle)

\* a fraction num/den kept exact; nan when the quotient is not a finite real
Fraction(num, den) ==
  IF ~IsFinite(num) \/ ~IsFinite(den) \/ den = 0 THEN [nan |-> TRUE, num |-> 0, den |-> 1]
  ELSE IF den < 0 THEN [nan |-> FALSE, num |-> -num, den |-> -den]
  ELSE [nan |-> FALSE, num |-> num, den |-> den]

OneMinus(f) == [nan |-> f.nan, num |-> f.den - f.num, den |-> f.den]
Times(f, g) ==
  IF f.nan \/ g.nan THEN [nan |-> TRUE, num |-> 0, den |-> 1]
  ELSE [nan |-> FALSE, num |-> f.num * g.num, den |-> f.den * g.den]

\* lines 186-187
FracL(zeta_a, l_a) == Fraction(RealSub(zeta_a, zetav[l_a - 1]), dzetaf[l_a - 1])
FracM(psi_a, m_a) == Fraction(RealSub(psi_a, psiv[m_a - 1]), dpsif[m_a - 1])

\* the bracket taken one cell too far: bins l_a, l_a + 1
IndicesAbove(l_a, m_a) ==
  <<AngleInd(l_a, m_a - 1), AngleInd(l_a, m_a),
    AngleInd(l_a + 1, m_a - 1), AngleInd(l_a + 1, m_a)>>

\* lines 182-185
Indices(l_a, m_a) ==
  <<AngleInd(l_a - 1, m_a - 1), AngleInd(l_a - 1, m_a),
    AngleInd(l_a, m_a - 1), AngleInd(l_a, m_a)>>

\* lines 188-191
Weights(frac_l, frac_m) ==
  <<Times(OneMinus(frac_l), OneMinus(frac_m)), Times(OneMinus(frac_l), frac_m),
    Times(frac_l, OneMinus(frac_m)), Times(frac_l, frac_m)>>

\* lines 170-191: the brackets found, the entry's four indices and weights
BracketedEntry(nh_a, zeta_a, psi_a, l_a, m_a) ==
  [ind |-> Indices(l_a, m_a),
   frac |-> Weights(FracL(zeta_a, l_a), FracM(psi_a, m_a)),
   nh_a0 |-> nh_a[1], zeta_a |-> zeta_a, psi_a |-> psi_a,
   l_a |-> l_a, m_a |-> m_a]

\* the polar scan's counter advanced once more after the break
AngleEntryOnePast(nh_a, zeta_a, psi_a) ==
  BracketedEntry(nh_a, zeta_a, psi_a,
                 BracketSearch(zetav, zs - 1, ze + 1, zeta_a) + 1,
                 BracketSearch(psiv, ps - 1, pe + 1, psi_a))

\* lines 170-181: the two bracket searches
AngleEntry(nh_a, zeta_a, psi_a) ==
  BracketedEntry(nh_a, zeta_a, psi_a,
                 BracketSearch(zetav, zs - 1, ze + 1, zeta_a),
                 BracketSearch(psiv, ps - 1, pe + 1, psi_a))

\* lines 167-169: the angles of the direction
DirectionEntry(nh_a) == AngleEntry(nh_a, PolarAngle(nh_a), AzimuthAngle(nh_a))

\* lines 148-191: the body of the lm_g loop, with the locals it computed
RemapEntry(eg, ecova, flip, lm_g) ==
  DirectionEntry(FlatDirection(ecova, GeometricAction(CoordinateDirection(eg, lm_g), flip)))

\* ------------------------------------------------------- spatial loops
\* lines 53-58
il == is - NGHOST
iu == ie + NGHOST
jl == IF js = je THEN js ELSE js - NGHOST
ju == IF js = je THEN je ELSE je + NGHOST
kl == IF ks = ke THEN ks ELSE ks - NGHOST
ku == IF ks = ke THEN ke ELSE ke + NGHOST
ncells1 == iu - il + 1
ncells2 == ju - jl + 1
ncells3 == ku - kl + 1

ReflectTables ==
  <<"reflect_ix1_", "reflect_ox1_", "reflect_ix2_", "reflect_ox2_",
    "reflect_ix3_", "reflect_ox3_">>
PolarTables == <<"polar_north_", "polar_south_">>

\* the face whose boundary flag the `if` around table t reads
\* (lines 134, 199, 264, 329, 394, 459, 530, 591)
GuardFace(t) ==
  CASE t = "reflect_ix1_" -> "inner_x1"
    [] t = "reflect_ox1_" -> "outer_x1"
    [] t = "reflect_ix2_" -> "inner_x2"
    [] t = "reflect_ox2_" -> "outer_x2"
    [] t = "reflect_ix3_" -> "inner_x3"
    [] t = "reflect_ox3_" -> "outer_x2"
    [] t = "polar_north_" -> "inner_x2"
    [] OTHER -> "outer_x2"

\* the face table t belongs to
OwnFace(t) ==
  CASE t = "reflect_ix1_" -> "inner_x1"
    [] t = "reflect_ox1_" -> "outer_x1"
    [] t = "reflect_ix2_" -> "inner_x2"
    [] t = "reflect_ox2_" -> "outer_x2"
    [] t = "reflect_ix3_" -> "inner_x3"
    [] t = "reflect_ox3_" -> "outer_x3"
    [] t = "polar_north_" -> "inner_x2"
    [] OTHER -> "outer_x2"

Axis(t) ==
  IF t \in {"reflect_ix1_", "reflect_ox1_"} THEN 1
  ELSE IF t \in {"reflect_ix3_", "reflect_ox3_"} THEN 3 ELSE 2

Inner(t) == t \in {"reflect_ix1_", "reflect_ix2_", "reflect_ix3_", "polar_north_"}

\* components negated by the boundary's action (lines 159, 224, 289, 354,
\* 419, 484, 550-551, 611-612)
Flip(t) == IF t \in {"polar_north_", "polar_south_"} THEN {2, 3} ELSE {Axis(t)}

FirstInterior(a) == CASE a = 1 -> is [] a = 2 -> js [] OTHER -> ks
LastInterior(a) == CASE a = 1 -> ie [] a = 2 -> je [] OTHER -> ke

\* lines 140, 205, 269, 334, 398, 463, 533, 594
GhostIndex(t, d) ==
  IF Inner(t) THEN FirstInterior(Axis(t)) - NGHOST + d
  ELSE LastInterior(Axis(t)) + 1 + d

\* the active cell taken by translation across the face instead of by
\* mirroring: the ghost cell's index shifted by the ghost width
ActiveIndexShifted(t, d) ==
  IF Inner(t) THEN FirstInterior(Axis(t)) + d
  ELSE LastInterior(Axis(t)) - (NGHOST - 1) + d

\* lines 141, 206, 270, 335, 399, 464
ActiveIndex(t, d) ==
  IF Inner(t) THEN FirstInterior(Axis(t)) + NGHOST - 1 - d
  ELSE LastInterior(Axis(t)) - d

\* the two loops across the face: lower and upper bounds, in the order
\* <<lower-numbered axis, higher-numbered axis>>
TransverseLow(a) ==
  CASE a = 1 -> <<jl, kl>> [] a = 2 -> <<il, kl>> [] OTHER -> <<il, jl>>
TransverseHigh(a) ==
  CASE a = 1 -> <<ju, ku>> [] a = 2 -> <<iu, ku>> [] OTHER -> <<iu, ju>>

\* the point with index q along axis a and transverse position tr
Point(a, q, tr) ==
  CASE a = 1 -> <<x1v(q), x2v(tr[1]), x3v(tr[2])>>
    [] a = 2 -> <<x1v(tr[1]), x2v(q), x3v(tr[2])>>
    [] OTHER -> <<x1v(tr[1]), x2v(tr[2]), x3v(q)>>

TetradAt(pt) == Tetrad(pt[1], pt[2], pt[3])

\* extents passed to NewAthenaArray (lines 135, 200, 265, 330, 395, 460)
Extents(t) ==
  CASE Axis(t) = 1 -> <<4, nang, ncells3, ncells2, NGHOST>>
    [] Axis(t) = 2 -> <<4, nang, ncells3, NGHOST, ncells1>>
    [] OTHER -> <<4, nang, NGHOST, ncells2, ncells1>>

\* The loops across the face repeat one body at every transverse position;
\* the model follows the slots <<depth, lm_g>> of the first one, the pencil
\* of cells along the face normal at TransverseLow.
Slots(t) == (0..(NGHOST - 1)) \X (0..(nang - 1))

NextPc(t) ==
  CASE t = "reflect_ix1_" -> "reflect_ox1_"
    [] t = "reflect_ox1_" -> "reflect_ix2_"
    [] t = "reflect_ix2_" -> "reflect_ox2_"
    [] t = "reflect_ox2_" -> "reflect_ix3_"
    [] t = "reflect_ix3_" -> "reflect_ox3_"
    [] t = "reflect_ox3_" -> "polar_vals_"
    [] t = "polar_north_" -> "polar_south_"
    [] OTHER -> "done"

\* the table of a reflecting face: every ghost point's frame e_g, the frame
\* e_cov_a of the active point mirrored through the face
ReflectEntry(t, d, tr, lm_g) ==
  RemapEntry(TetradAt(Point(Axis(t), GhostIndex(t, d), tr)).e,
             TetradAt(Point(Axis(t), ActiveIndex(t, d), tr)).e_cov,
             Flip(t), lm_g)

ReflectTable(t) ==
  [s \in Slots(t) |-> ReflectEntry(t, s[1], TransverseLow(Axis(t)), s[2])]

\* the block guarded by table t's `if` (lines 134-196, 199-261, 264-326,
\* 329-391, 394-456, 459-521).  A table is written once and never read
\* again by the constructor: `allocated` keeps every array built so far,
\* `tables` the entries of the block that has just run.
ReflectFace(t) ==
  /\ pc = t
  /\ IF block_bcs[GuardFace(t)] = "reflect"
     THEN /\ allocated' = Put(allocated, t, Extents(t))
          /\ tables' = Put(<<>>, t, ReflectTable(t))
          /\ e_g' = TetradAt(Point(Axis(t), GhostIndex(t, NGHOST - 1),
                                   TransverseHigh(Axis(t)))).e
          /\ e_a' = TetradAt(Point(Axis(t), ActiveIndex(t, NGHOST - 1),
                                   TransverseHigh(Axis(t)))).e
          /\ e_cov_a' = TetradAt(Point(Axis(t), ActiveIndex(t, NGHOST - 1),
                                       TransverseHigh(Axis(t)))).e_cov
     ELSE /\ tables' = <<>>
          /\ UNCHANGED <<allocated, e_g, e_a, e_cov_a>>
  /\ pc' = NextPc(t)
  /\ UNCHANGED <<input_vars, par, l, m, grid_vars, nh_g, wild_writes>>

\* lines 523-527
PolarVals ==
  /\ pc = "polar_vals_"
  /\ IF block_bcs["inner_x2"] = "polar" \/ block_bcs["outer_x2"] = "polar"
     THEN allocated' = Put(allocated, "polar_vals_", <<nang>>)
     ELSE UNCHANGED allocated
  /\ pc' = "polar_north_"
  /\ tables' = <<>>
  /\ UNCHANGED <<input_vars, par, l, m, grid_vars, nh_g, e_g, e_a, e_cov_a, wild_writes>>

\* the entries of a polar cap: Tetrad fills e_g at the ghost point (lines
\* 538, 599); e_cov_a is read as the constructor last left it (555, 616)
PolarTable(t) ==
  [s \in Slots(t) |->
     RemapEntry(TetradAt(Point(2, GhostIndex(t, s[1]), TransverseLow(2))).e, e_cov_a,
                Flip(t), s[2])]

\* lines 530-588 and 591-649.  The entries go to polar_ind_/polar_frac_ of
\* the cap; written without storage behind them, the build either carries
\* on or stops.
PolarCap(t) ==
  /\ pc = t
  /\ IF block_bcs[GuardFace(t)] = "polar"
     THEN /\ tables' = Put(<<>>, t, PolarTable(t))
          /\ e_g' = TetradAt(Point(2, GhostIndex(t, NGHOST - 1), TransverseHigh(2))).e
          /\ IF t \in DOMAIN allocated
             THEN /\ wild_writes' = wild_writes
                  /\ pc' = NextPc(t)
             ELSE /\ wild_writes' = wild_writes \cup {t}
                  /\ pc' \in {NextPc(t), "crashed"}
     ELSE /\ pc' = NextPc(t)
          /\ tables' = <<>>
          /\ UNCHANGED <<e_g, wild_writes>>
  /\ UNCHANGED <<input_vars, par, l, m, grid_vars, nh_g, e_a, e_cov_a, allocated>>

Next ==
  \/ PolarPoles
  \/ PolarActive
  \/ PolarEquator
  \/ PolarGhost
  \/ PolarCenters
  \/ AzimuthOrigin
  \/ AzimuthActive
  \/ AzimuthGhost
  \/ AzimuthCenters
  \/ UnitNormals
  \/ \E i \in 1..Len(ReflectTables) : ReflectFace(ReflectTables[i])
  \/ PolarVals
  \/ \E i \in 1..Len(PolarTables) : PolarCap(PolarTables[i])

Spec == Init /\ [][Next]_vars

\* ------------------------------------------ one face block on two threads
\* The loops of lines 137-194 handed to two threads, the way a parallel loop
\* over j ("positions") or over lm_g ("bins") would hand them out.  The
\* temporaries e_g, e_a, e_cov_a of line 109 are the constructor's: both
\* threads use the same ones.  Each thread takes MaxRaceBins source bins.
Threads == {1, 2}
Splits == {"positions", "bins"}

\* the transverse position after TransverseLow in the inner spatial loop
TransverseNext(a) == <<TransverseLow(a)[1] + 1, TransverseLow(a)[2]>>

\* the transverse position whose iteration thread th runs
ThreadPosition(t, split, th) ==
  IF split = "positions" /\ th = 2 THEN TransverseNext(Axis(t))
  ELSE TransverseLow(Axis(t))

\* the first source bin of thread th
FirstBin(split, th) == IF split = "bins" /\ th = 2 THEN MaxRaceBins ELSE 0

\* every bin emitted under one transverse position, whatever lm_g
ThreadSlotOfPosition(t, split, th, lm_g) == <<ThreadPosition(t, split, th), 0>>

\* lines 182-191: the slot (lm_g, k, j, di) an iteration writes, di = 0
ThreadSlot(t, split, th, lm_g) == <<ThreadPosition(t, split, th), lm_g>>

\* lines 134-136, and for a loop split over bins lines 140-147 once
ParBegin(t, split) ==
  /\ pc = t
  /\ block_bcs[GuardFace(t)] = "reflect"
  /\ allocated' = Put(allocated, t, Extents(t))
  /\ par' = [face |-> t, split |-> split,
             step |-> IF split = "bins" THEN <<"emit", "emit">> ELSE <<"fill", "fill">>,
             bin |-> <<FirstBin(split, 1), FirstBin(split, 2)>>, out |-> <<>>]
  /\ IF split = "bins"
     THEN /\ e_g' = TetradAt(Point(Axis(t), GhostIndex(t, 0), TransverseLow(Axis(t)))).e
          /\ e_a' = TetradAt(Point(Axis(t), ActiveIndex(t, 0), TransverseLow(Axis(t)))).e
          /\ e_cov_a' = TetradAt(Point(Axis(t), ActiveIndex(t, 0), TransverseLow(Axis(t)))).e_cov
     ELSE UNCHANGED <<e_g, e_a, e_cov_a>>
  /\ pc' = "parallel"
  /\ UNCHANGED <<input_vars, l, m, grid_vars, nh_g, tables, wild_writes>>

\* lines 140-147 on thread th: the two Tetrad calls fill the temporaries
ParFill(th) ==
  /\ pc = "parallel"
  /\ par.step[th] = "fill"
  /\ e_g' = TetradAt(Point(Axis(par.face), GhostIndex(par.face, 0),
                           ThreadPosition(par.face, par.split, th))).e
  /\ e_a' = TetradAt(Point(Axis(par.face), ActiveIndex(par.face, 0),
                           ThreadPosition(par.face, par.split, th))).e
  /\ e_cov_a' = TetradAt(Point(Axis(par.face), ActiveIndex(par.face, 0),
                               ThreadPosition(par.face, par.split, th))).e_cov
  /\ par' = [par EXCEPT !.step[th] = "emit"]
  /\ UNCHANGED <<input_vars, pc, l, m, grid_vars, nh_g, allocated, tables, wild_writes>>

\* lines 148-191 on thread th: one iteration of the lm_g loop
ParEmit(th) ==
  /\ pc = "parallel"
  /\ par.step[th] = "emit"
  /\ par' = [par EXCEPT
               !.out = Put(@, ThreadSlot(par.face, par.split, th, par.bin[th]),
                           RemapEntry(e_g, e_cov_a, Flip(par.face), par.bin[th])),
               !.bin[th] = @ + 1,
               !.step[th] = IF par.bin[th] + 1 = FirstBin(par.split, th) + MaxRaceBins
                            THEN "done" ELSE "emit"]
  /\ UNCHANGED <<input_vars, pc, l, m, grid_vars, table_vars>>

\* a face that is not reflecting: its block is skipped
SkipFace(t) == block_bcs[GuardFace(t)] # "reflect" /\ ReflectFace(t)

NextPar ==
  \/ PolarPoles
  \/ PolarActive
  \/ PolarEquator
  \/ PolarGhost
  \/ PolarCenters
  \/ AzimuthOrigin
  \/ AzimuthActive
  \/ AzimuthGhost
  \/ AzimuthCenters
  \/ UnitNormals
  \/ \E i \in 1..Len(ReflectTables) : SkipFace(ReflectTables[i])
  \/ \E i \in 1..Len(ReflectTables), split \in Splits : ParBegin(ReflectTables[i], split)
  \/ \E th \in Threads : ParFill(th)
  \/ \E th \in Threads : ParEmit(th)

\* the blocks with one reflecting face and no other boundary to build
InitPar ==
  /\ Init
  /\ \E f \in Faces : block_bcs = [g \in Faces |-> IF g = f THEN "reflect" ELSE "periodic"]

ParSpec == InitPar /\ [][NextPar]_vars

\* ------------------------------------------------------------ properties
\* positions at which the six guarded reflection blocks have all run
FacesDone == pc \in {"polar_vals_", "polar_north_", "polar_south_", "done"}
\* positions at which zetaf is final (lines 69-84 have run)
ZetafDone == pc \notin {"polar_poles", "polar_active", "polar_equator", "polar_ghost"}
\* positions at which psif is final (lines 93-102 have run)
PsifDone ==
  /\ ZetafDone
  /\ pc \notin {"polar_centers", "azimuth_origin", "azimuth_active", "azimuth_ghost"}

\* the transformed angles of entry e are a latitude in [0, pi] and a
\* longitude in [0, 2 pi]
AnglesInRange(e) ==
  /\ IsFinite(e.zeta_a) /\ 0 <= e.zeta_a /\ e.zeta_a <= PI
  /\ IsFinite(e.psi_a) /\ 0 <= e.psi_a /\ e.psi_a <= 2 * PI

\* the weight f is a real in [0, 1]
InUnit(f) == ~f.nan /\ 0 <= f.num /\ f.num <= f.den

\* the four weights of entry e are reals adding up to exactly 1
SumsToOne(e) ==
  /\ \A n \in 1..4 : ~e.frac[n].nan
  /\ \A n \in 2..4 : e.frac[n].den = e.frac[1].den
  /\ e.frac[1].num + e.frac[2].num + e.frac[3].num + e.frac[4].num = e.frac[1].den

\* C1: once the six guarded blocks have run, the reflection table of each
\* spatial face has been built if and only if that same face is reflecting
\* (the outer-x3 table exactly when outer_x3 reflects).
ReflectTableIffFaceReflects ==
  FacesDone =>
    \A i \in 1..Len(ReflectTables) :
      (ReflectTables[i] \in DOMAIN allocated)
        <=> (block_bcs[OwnFace(ReflectTables[i])] = "reflect")

\* C2: every emitted entry whose transformed angles lie in [0, pi] x
\* [0, 2 pi] has l_a - 1, l_a in the padded polar range, m_a - 1, m_a in the
\* padded azimuthal range and its four linear indices in [0, nang).
TargetBinsValid ==
  \A t \in DOMAIN tables : \A s \in DOMAIN tables[t] :
    AnglesInRange(tables[t][s]) =>
      /\ 0 <= tables[t][s].l_a - 1
      /\ tables[t][s].l_a <= nzeta + 2*NGHOST_RAD - 1
      /\ 0 <= tables[t][s].m_a - 1
      /\ tables[t][s].m_a <= npsi + 2*NGHOST_RAD - 1
      /\ \A n \in 1..4 : tables[t][s].ind[n] \in 0..(nang - 1)

\* a table holds an entry with proper angles bracketed by the last padded
\* cell on both sides of the pole: below the first centre and above the last
TargetBinsWitness ==
  \E t \in DOMAIN tables :
    /\ \E s \in DOMAIN tables[t] :
         AnglesInRange(tables[t][s]) /\ tables[t][s].l_a = ze + 1
    /\ \E s \in DOMAIN tables[t] :
         AnglesInRange(tables[t][s]) /\ tables[t][s].l_a = zs

\* C3: every emitted entry with proper angles has its four weights in
\* [0, 1], the entries bracketed next to a pole included.
WeightsInUnitInterval ==
  \A t \in DOMAIN tables : \A s \in DOMAIN tables[t] :
    AnglesInRange(tables[t][s]) => \A n \in 1..4 : InUnit(tables[t][s].frac[n])

\* C4: the four weights of every emitted entry sum to 1.
WeightsSumToOne ==
  \A t \in DOMAIN tables : \A s \in DOMAIN tables[t] : SumsToOne(tables[t][s])

\* C5: once the polar faces are built, zetaf is strictly increasing over the
\* whole padded range 0 .. nzeta + 2*NGHOST_RAD, for every nzeta >= 1 and
\* ghost width >= 1.
ZetaFaceStrictlyIncreasing ==
  ZetafDone => \A i \in DOMAIN dzetaf : zetaf[i] < zetaf[i + 1]

\* C6: in the final zetaf the north pole face is exactly 0, the south pole
\* face exactly pi, the equator face exactly pi/2 when nzeta is even, and
\* every face from zs to ze + 1 has been assigned exactly once.
PolesAndEquatorExact ==
  ZetafDone =>
    /\ zetaf[NGHOST_RAD] = 0
    /\ zetaf[nzeta + NGHOST_RAD] = PI
    /\ (nzeta % 2 = 0 => zetaf[nzeta \div 2 + NGHOST_RAD] = PI \div 2)
    /\ \A i \in NGHOST_RAD..(nzeta + NGHOST_RAD) : zetaf_writes[i] = 1

\* the faces are final on a grid with an equator face, the equator and the
\* outermost ghost face each assigned once
PolesAndEquatorWitness ==
  /\ pc = "polar_centers"
  /\ nzeta % 2 = 0
  /\ zetaf_writes[nzeta \div 2 + NGHOST_RAD] = 1
  /\ zetaf_writes[0] = 1

\* C7: in the final psif the origin face is 0, the closing face 2 pi, every
\* beginning ghost face equals the face npsi above it minus 2 pi and every
\* end ghost face the face npsi below it plus 2 pi, for every npsi >= 1 and
\* ghost width >= 1.
PsiGhostFacesShifted ==
  PsifDone =>
    /\ psif[NGHOST_RAD] = 0
    /\ psif[npsi + NGHOST_RAD] = 2 * PI
    /\ \A mm \in 0..(NGHOST_RAD - 1) : psif[mm] = psif[mm + npsi] - 2 * PI
    /\ \A mm \in (npsi + NGHOST_RAD + 1)..(npsi + 2*NGHOST_RAD) :
         psif[mm] = psif[mm - npsi] + 2 * PI

\* C8: the entries of a polar cap are written to arrays allocated for that
\* cap beforehand, so that no write of polar construction lands outside
\* allocated storage.
PolarWritesAllocated ==
  \A i \in 1..Len(PolarTables) :
    PolarTables[i] \in DOMAIN tables =>
      PolarTables[i] \in DOMAIN allocated /\ PolarTables[i] \notin wild_writes

\* C9: no entry is emitted from a bracket search that ran off its range:
\* never l_a = ze + 2, never m_a = pe + 2.
BracketExhaustionRaises ==
  \A t \in DOMAIN tables : \A s \in DOMAIN tables[t] :
    tables[t][s].l_a <= ze + 1 /\ tables[t][s].m_a <= pe + 1

\* C10: no entry is emitted from a transformed direction whose time-like
\* component nh_a[0] is zero.
DegenerateFrameDetected ==
  \A t \in DOMAIN tables : \A s \in DOMAIN tables[t] : tables[t][s].nh_a0 # 0

\* the linear ids the unit-direction loop addresses, one per iteration
LoopIds == {AngleInd(b[1], b[2]) : b \in PaddedBins}

\* C11: AngleInd maps the padded index rectangle one-to-one onto [0, nang):
\* distinct (l, m) give distinct ids and every id below nang is hit, so the
\* unit-direction loop has written each bin of nh_g exactly once.
AngleIndexBijective ==
  pc = "reflect_ix1_" =>
    /\ LoopIds = 0..(nang - 1)
    /\ Cardinality(LoopIds) = Cardinality(PaddedBins)
    /\ \A p \in DOMAIN nh_g : DOMAIN nh_g[p] = LoopIds

\* the unit directions are built on a rectangle that is not square, two
\* ghost layers wide
AngleIndexWitness ==
  /\ pc = "reflect_ix1_"
  /\ NGHOST_RAD = 2
  /\ nzeta + 2*NGHOST_RAD > npsi + 2*NGHOST_RAD
  /\ npsi > 1

\* 0.816496580927726 in thousandths (lines 127-128)
IsotropicFactor == 816

\* C12: when nzeta = 1, once the unit directions are built every bin (l, m)
\* holds, at AngleInd(l, m), components 1 and 2 equal to sin(zeta)cos(psi)
\* and sin(zeta)sin(psi) times 0.816496580927726, components 0 and 3 as
\* computed, and nothing outside the 4 x nang table has been written.
IsotropicRescaleInTable ==
  (nzeta = 1 /\ "nh_g" \in DOMAIN allocated) =>
    /\ "nh_g" \notin wild_writes
    /\ \A b \in PaddedBins :
         /\ nh_g[0][AngleInd(b[1], b[2])] = UnitNormal(0, b[1], b[2])
         /\ nh_g[1][AngleInd(b[1], b[2])]
              = RealMul(UnitNormal(1, b[1], b[2]), IsotropicFactor)
         /\ nh_g[2][AngleInd(b[1], b[2])]
              = RealMul(UnitNormal(2, b[1], b[2]), IsotropicFactor)
         /\ nh_g[3][AngleInd(b[1], b[2])] = UnitNormal(3, b[1], b[2])

\* both threads have run all their iterations
ThreadsDone == par.step = <<"done", "done">>

\* C13: iterations of a face block have no cross-iteration data dependency:
\* run on two threads without synchronization, over different transverse
\* positions or over different angle bins, they leave in every slot the
\* entry the sequential loops leave there.
ConcurrentMatchesSequential ==
  ThreadsDone =>
    \A s \in DOMAIN par.out : par.out[s] = ReflectEntry(par.face, 0, s[1], s[2])

\* C13 amended: iterations over different source bins at one ghost point of
\* a reflecting face, run on two threads after that point's Tetrad calls,
\* leave in every one of their slots the entry the sequential loop leaves.
ConcurrentBinsMatchSequential ==
  (ThreadsDone /\ par.split = "bins") =>
    /\ DOMAIN par.out = {TransverseLow(Axis(par.face))} \X (0..(2 * MaxRaceBins - 1))
    /\ \A s \in DOMAIN par.out : par.out[s] = ReflectEntry(par.face, 0, s[1], s[2])

\* two threads have shared the bins of a point whose ghost and active
\* frames differ
ConcurrentBinsWitness ==
  /\ ThreadsDone
  /\ par.split = "bins"
  /\ geometry = "rotating"
  /\ e_g # e_a

\* weight f is exactly the real w (0 or 1)
WeightIs(f, w) == ~f.nan /\ f.num = w * f.den

\* entry e puts weight 1 on bin (ll, mm) in one of its four places and
\* weight 0 in the other three
UnitWeightOn(e, ll, mm) ==
  \E k \in 1..4 :
    /\ e.ind[k] = AngleInd(ll, mm)
    /\ WeightIs(e.frac[k], 1)
    /\ \A j \in (1..4) \ {k} : WeightIs(e.frac[j], 0)

\* C14: with a flat tetrad at every point, every entry of a reflecting
\* face whose reflected direction is exactly an interior grid node
\* (zetav(l'), psiv(m')) puts weight 1 on bin (l', m') and weight 0 on its
\* other three places.
FlatNodeGetsUnitWeight ==
  geometry = "flat" =>
    \A i \in 1..Len(ReflectTables) :
      ReflectTables[i] \in DOMAIN tables =>
        \A s \in DOMAIN tables[ReflectTables[i]] :
          \A ll \in zs..ze : \A mm \in ps..pe :
            (/\ tables[ReflectTables[i]][s].zeta_a = zetav[ll]
             /\ tables[ReflectTables[i]][s].psi_a = psiv[mm])
              => UnitWeightOn(tables[ReflectTables[i]][s], ll, mm)

\* a flat x2 face has mirrored a source bin at azimuth pi/2 onto the node at
\* azimuth 3 pi/2 with the same polar index
FlatNodeWitness ==
  /\ geometry = "flat" /\ npsi = 2
  /\ "reflect_ix2_" \in DOMAIN tables
  /\ \E s \in DOMAIN tables["reflect_ix2_"] :
       /\ BinL(s[2]) \in zs..ze /\ BinM(s[2]) = ps
       /\ tables["reflect_ix2_"][s].zeta_a = zetav[BinL(s[2])]
       /\ tables["reflect_ix2_"][s].psi_a = psiv[pe]
       /\ UnitWeightOn(tables["reflect_ix2_"][s], BinL(s[2]), pe)

\* place k of entry e carries its largest weight
Dominant(e, k) ==
  /\ \A n \in 1..4 : ~e.frac[n].nan
  /\ \A n \in 1..4 : e.frac[k].num * e.frac[n].den >= e.frac[n].num * e.frac[k].den

\* bins a and b are the same cell or neighbours, the azimuth taken around
\* the circle
WithinOneCell(a, b) ==
  /\ Abs(BinL(a) - BinL(b)) <= 1
  /\ \/ Abs(BinM(a) - BinM(b)) <= 1
     \/ Abs(BinM(a) - BinM(b)) >= npsi - 1

\* C15: in a flat tetrad, for every interior source bin, the dominant bin of
\* its north-cap entry exists, and the dominant bin of that bin's south-cap
\* entry is the source bin again or a neighbour of it.
PolarInvolution ==
  (/\ pc = "done" /\ geometry = "flat" /\ block_bcs = BothCaps
   /\ "polar_south_" \in DOMAIN tables)
    => \A lm \in 0..(nang - 1) :
         (BinL(lm) \in zs..ze /\ BinM(lm) \in ps..pe) =>
           \E k \in 1..4 :
             /\ Dominant(PolarTable("polar_north_")[<<0, lm>>], k)
             /\ PolarTable("polar_north_")[<<0, lm>>].ind[k] \in 0..(nang - 1)
             /\ \E j \in 1..4 :
                  /\ Dominant(tables["polar_south_"]
                                [<<0, PolarTable("polar_north_")[<<0, lm>>].ind[k]>>], j)
                  /\ tables["polar_south_"]
                       [<<0, PolarTable("polar_north_")[<<0, lm>>].ind[k]>>].ind[j]
                       \in 0..(nang - 1)
                  /\ WithinOneCell(
                       tables["polar_south_"]
                         [<<0, PolarTable("polar_north_")[<<0, lm>>].ind[k]>>].ind[j],
                       lm)

\* C16: every entry of a polar cap is the one obtained with the dual tetrad
\* of the ghost cell's own point: it is built from that point's tetrad and
\* the angular grid alone.
PolarUsesOwnDualTetrad ==
  \A i \in 1..Len(PolarTables) :
    PolarTables[i] \in DOMAIN tables =>
      \A s \in DOMAIN tables[PolarTables[i]] :
        tables[PolarTables[i]][s] =
          RemapEntry(
            TetradAt(Point(2, GhostIndex(PolarTables[i], s[1]), TransverseLow(2))).e,
            TetradAt(Point(2, GhostIndex(PolarTables[i], s[1]), TransverseLow(2))).e_cov,
            Flip(PolarTables[i]), s[2])

\* C17: for every emitted entry whose transformed angles are finite with
\* zeta_a in [0, pi] and psi_a in [0, 2 pi], both scans stopped at a centre
\* above the angle, inside the searched range: l_a in zs .. ze + 1 and m_a in
\* ps .. pe + 1, with zetav(l_a - 1) <= zeta_a < zetav(l_a) and
\* psiv(m_a - 1) <= psi_a < psiv(m_a).
BracketSearchBrackets ==
  \A t \in DOMAIN tables : \A s \in DOMAIN tables[t] :
    AnglesInRange(tables[t][s]) =>
      /\ tables[t][s].l_a \in zs..(ze + 1)
      /\ tables[t][s].m_a \in ps..(pe + 1)
      /\ zetav[tables[t][s].l_a - 1] <= tables[t][s].zeta_a
      /\ tables[t][s].zeta_a < zetav[tables[t][s].l_a]
      /\ psiv[tables[t][s].m_a - 1] <= tables[t][s].psi_a
      /\ tables[t][s].psi_a < psiv[tables[t][s].m_a]

\* one table holds an entry bracketed by the first searched cell of both
\* ranges, one bracketed by the last, and one strictly inside the polar range
BracketSearchWitness ==
  \E t \in DOMAIN tables :
    /\ \E s \in DOMAIN tables[t] :
         /\ AnglesInRange(tables[t][s])
         /\ tables[t][s].l_a = zs /\ tables[t][s].m_a = ps
    /\ \E s \in DOMAIN tables[t] :
         /\ AnglesInRange(tables[t][s])
         /\ tables[t][s].l_a = ze + 1 /\ tables[t][s].m_a = pe + 1
    /\ \E s \in DOMAIN tables[t] :
         AnglesInRange(tables[t][s]) /\ tables[t][s].l_a \in (zs + 1)..ze

\* first and last index of the loop along axis a, ghost cells included
LoopLow(a) == CASE a = 1 -> il [] a = 2 -> jl [] OTHER -> kl
LoopHigh(a) == CASE a = 1 -> iu [] a = 2 -> ju [] OTHER -> ku

\* the ghost cells of table t's face along its normal
GhostCells(t) ==
  IF Inner(t) THEN LoopLow(Axis(t))..(FirstInterior(Axis(t)) - 1)
  ELSE (LastInterior(Axis(t)) + 1)..LoopHigh(Axis(t))

\* C18: in every reflecting block that has run, at each ghost depth the
\* ghost and the active index are mirror images through the face (they add
\* up to 2s - 1 at an inner face with first interior index s, to 2e + 1 at an
\* outer face with last interior index e); over the depths 0 .. NGHOST-1 the
\* ghost indices are each ghost cell of the face exactly once and the active
\* indices stay in the interior.
GhostMirrorsActive ==
  \A i \in 1..Len(ReflectTables) :
    ReflectTables[i] \in DOMAIN tables =>
      /\ \A d \in 0..(NGHOST - 1) :
           /\ GhostIndex(ReflectTables[i], d) + ActiveIndex(ReflectTables[i], d)
                = IF Inner(ReflectTables[i])
                  THEN 2 * FirstInterior(Axis(ReflectTables[i])) - 1
                  ELSE 2 * LastInterior(Axis(ReflectTables[i])) + 1
           /\ ActiveIndex(ReflectTables[i], d)
                \in FirstInterior(Axis(ReflectTables[i]))
                      ..LastInterior(Axis(ReflectTables[i]))
      /\ {GhostIndex(ReflectTables[i], d) : d \in 0..(NGHOST - 1)}
           = GhostCells(ReflectTables[i])
      /\ Cardinality(GhostCells(ReflectTables[i])) = NGHOST

\* the outer-x1 block has run: its deepest ghost cell is the last cell of
\* the loop and is paired with the interior cell NGHOST - 1 below the face
GhostMirrorWitness ==
  /\ "reflect_ox1_" \in DOMAIN tables
  /\ DOMAIN tables["reflect_ox1_"] = Slots("reflect_ox1_")
  /\ GhostIndex("reflect_ox1_", NGHOST - 1) = iu
  /\ ActiveIndex("reflect_ox1_", NGHOST - 1) = ie - (NGHOST - 1)
  /\ tables["reflect_ox1_"][<<NGHOST - 1, 0>>]
       = ReflectEntry("reflect_ox1_", NGHOST - 1, TransverseLow(1), 0)

\* the components the boundary of table t is to negate: the one normal to a
\* reflecting face, the two transverse to the polar axis at a cap
Prescribed(t) ==
  IF t \in {"polar_north_", "polar_south_"} THEN {2, 3}
  ELSE IF OwnFace(t) \in {"inner_x1", "outer_x1"} THEN {1}
  ELSE IF OwnFace(t) \in {"inner_x2", "outer_x2"} THEN {2}
  ELSE {3}

\* the coordinate-frame direction of source bin lm_g at the first ghost
\* point of depth d of table t
GhostDirection(t, d, lm_g) ==
  CoordinateDirection(
    TetradAt(Point(Axis(t), GhostIndex(t, d), TransverseLow(Axis(t)))).e, lm_g)

\* n_a is n_g with exactly the components in flip negated
NegatesExactly(n_g, n_a, flip) ==
  \A n \in 0..3 :
    n_a[n + 1] = IF n \in flip THEN RealNeg(n_g[n + 1]) ELSE n_g[n + 1]

\* the action of table t's boundary on n_g negates exactly the components
\* prescribed for t
ActsAsPrescribed(t, n_g) ==
  NegatesExactly(n_g, GeometricAction(n_g, Flip(t)), Prescribed(t))

\* C19: in every block that has run, the vector n_a handed to the dual
\* tetrad is n_g with exactly the prescribed components negated: the
\* component normal to a reflecting face, components 2 and 3 at a polar
\* cap; every other component, component 0 included, is n_g's.
ActionNegatesPrescribed ==
  \A t \in DOMAIN tables : \A s \in DOMAIN tables[t] :
    ActsAsPrescribed(t, GhostDirection(t, s[1], s[2]))

\* a polar cap has turned a direction with three non-zero spatial
\* components into one that differs from it in components 2 and 3
ActionNegatesWitness ==
  /\ "polar_north_" \in DOMAIN tables
  /\ \E s \in DOMAIN tables["polar_north_"] :
       /\ \A n \in 1..4 : GhostDirection("polar_north_", s[1], s[2])[n] # 0
       /\ GeometricAction(GhostDirection("polar_north_", s[1], s[2]),
                          Flip("polar_north_"))[3]
            # GhostDirection("polar_north_", s[1], s[2])[3]
       /\ tables["polar_north_"][s]
            = DirectionEntry(FlatDirection(e_cov_a,
                GeometricAction(GhostDirection("polar_north_", s[1], s[2]),
                                Flip("polar_north_"))))

====
